---- MODULE Spec2Model ----
(***************************************************************************)
(* Model of cf-uploader/cf.py: the CloudflareSeeder client (zone-id cache, *)
(* paginated record reads, record creation and deletion) running against a *)
(* DNS provider whose answers, failures and other writers are the          *)
(* environment.  Every provider call is one step; other writers may change *)
(* the provider's records between two steps.                               *)
(***************************************************************************)
EXTENDS Integers, Sequences, FiniteSets, TLC

(* ------------------------------ bounds --------------------------------- *)
\* seed records the provider holds initially (at most)
MaxRecords == 11
\* records the provider accepts on top of the initial ones
MaxNew == 1
\* zones a zone query returns (at most)
MaxZones == 2
\* addresses handed to one set_seeds call (at most)
MaxSeeds == 2
\* changes made by other writers in one behaviour
MaxOther == 1
\* operations invoked on the client in one behaviour
MaxOps == 2
\* a further operation is invoked only while the provider has issued at most this
\* many record identifiers
MaxSmall == 2

(* --------------------------- program constants ------------------------- *)
\* 'per_page': 10 in default_params
PerPage == 10

None == "None"
Domain == <<"example", "org">>
Name == <<"seeds">>
ZoneIds == {"z1", "z2"}
AddrSeq == <<"1.2.3.4", "5.6.7.8">>
Addrs == {AddrSeq[i] : i \in 1..Len(AddrSeq)}
\* ttl=None is <<>>, ttl=t is <<t>>
Ttls == {<<>>, <<300>>}

\* exceptions
ZoneNotFound == "ZoneNotFound"
TooManyZones == "TooManyZones"
CloudFlareAPIError == "CloudFlareAPIError"
\* any exception that is not a CloudFlareAPIError (transport, internal)
OtherError == "OtherError"
ProviderErrors == {CloudFlareAPIError, OtherError}

MaxId == MaxRecords + MaxNew
\* the largest total_pages the provider can report
MaxTotalPages == (MaxId + PerPage - 1) \div PerPage

VARIABLES
    zone_id,    \* self._zone_id
    raw,        \* self.cf._base.raw
    store,      \* the provider's seed records (type A, name Name.Domain), in its order
    nextId,     \* the identifier the provider gives the next record
    op,         \* the method being executed
    pc,         \* where it is: "idle", "zone", "read", "post", "delete", "done"
    seeds,      \* set_seed/set_seeds: addresses still to post; delete_seeds: the set
    arg,        \* the seeds argument as passed by the caller
    ttl,        \* set_seed/set_seeds argument
    zone,       \* get_seed_records' local zone_id
    page,       \* get_seed_records' local page
    records,    \* get_seed_records' local records
    todo,       \* delete_seeds: records of the loop still to visit that match
    outcome,    \* "running", "returned" or the exception raised to the caller
    result,     \* the value returned
    log,        \* the provider calls issued by the current operation, in order
    pages,      \* the page responses received by the current operation, in order
    lastZones,  \* the answer to the zone query of the current operation, if any
    zoneErr,    \* the error of a failed zone resolution in the current operation
    store0,     \* the provider's records when the operation was invoked
    readStore,  \* the provider's records when get_seed_records returned
    stable,     \* no other writer has acted since the operation was invoked
    others,     \* number of changes by other writers
    ops         \* number of operations invoked

vars == <<zone_id, raw, store, nextId, op, pc, seeds, arg, ttl, zone, page, records, todo,
          outcome, result, log, pages, lastZones, zoneErr, store0, readStore, stable,
          others, ops>>

client == <<zone_id, raw>>
provider == <<store, nextId>>
locals == <<zone, page, records, todo>>
ghosts == <<arg, store0, stable, others, ops>>

(* ------------------------------ helpers -------------------------------- *)
Min(a, b) == IF a < b THEN a ELSE b

RECURSIVE SeqsUpTo(_, _)
SeqsUpTo(S, n) ==
    IF n = 0 THEN {<<>>}
    ELSE LET shorter == SeqsUpTo(S, n - 1)
         IN  shorter \cup {Append(s, x) : s \in {t \in shorter : Len(t) = n - 1}, x \in S}

\* '.'.join([self.name, self.domain])
FullName == Name \o Domain

Contents(recs) == [i \in 1..Len(recs) |-> recs[i].content]
Ids(recs) == {recs[i].id : i \in 1..Len(recs)}

\* the provider's initial records: n records, addresses in rotation
InitStore(n) == [i \in 1..n |-> [id |-> i, content |-> AddrSeq[((i - 1) % Len(AddrSeq)) + 1]]]

\* the provider's answer to a record read: the requested slice and the page count
TotalPages(recs, per_page) == (Len(recs) + per_page - 1) \div per_page
PageOf(recs, per_page, p) ==
    SubSeq(recs, (p - 1) * per_page + 1, Min(p * per_page, Len(recs)))

\* the provider's records after a delete of identifier id
Remove(recs, id) == SelectSeq(recs, LAMBDA r : r.id # id)

\* provider answers to a zone query: a list of zone objects, or a failure
ZoneLists == SeqsUpTo({[id |-> z] : z \in ZoneIds}, MaxZones)
ZoneAnswers ==
    {[exc |-> None, zones |-> zs] : zs \in ZoneLists}
        \cup {[exc |-> e, zones |-> <<>>] : e \in ProviderErrors}
\* provider answers to a read, a create or a delete: served, or a failure
CallAnswers == {None} \cup ProviderErrors

(* --------------------------- the code's functions ---------------------- *)
\* a lookup that takes the first zone of several
lookup_zone_id_first(ans) ==
    IF ans.exc # None THEN [exc |-> ans.exc, val |-> None]
    ELSE IF Len(ans.zones) = 0 THEN [exc |-> ZoneNotFound, val |-> None]
    ELSE [exc |-> None, val |-> ans.zones[1].id]

\* _lookup_zone_id: the exception raised (None if none) and the value returned
lookup_zone_id(ans) ==
    IF ans.exc # None THEN [exc |-> ans.exc, val |-> None]
    ELSE IF Len(ans.zones) = 0 THEN [exc |-> ZoneNotFound, val |-> None]
    ELSE IF Len(ans.zones) > 1 THEN [exc |-> TooManyZones, val |-> None]
    ELSE [exc |-> None, val |-> ans.zones[1].id]

\* a zone_id property that asks the provider on every access
must_lookup_always(cache) == TRUE

\* line 58: the test of the zone_id property
must_lookup(cache) == cache = None

\* the zone_id property on cache value `cache`, the provider answering `ans` if asked:
\* exception, value, new cache, and whether the provider was asked
zone_id_property(cache, ans) ==
    IF must_lookup(cache)
    THEN LET r == lookup_zone_id(ans)
         IN  [exc |-> r.exc, val |-> r.val, cache |-> r.val, looked |-> TRUE]
    ELSE [exc |-> None, val |-> cache, cache |-> cache, looked |-> FALSE]

\* the provider's possible answers to an access to zone_id: none is needed on a hit
ZoneAnswersFor(cache) ==
    IF must_lookup(cache) THEN ZoneAnswers ELSE {[exc |-> None, zones |-> <<>>]}

\* the call log after an access to zone_id
ZoneCall == [call |-> "zones.get", params |-> [name |-> Domain]]
LogZone(l, r) == IF r.looked THEN Append(l, ZoneCall) ELSE l

\* default_params of get_seed_records with the page set
read_params(p) == [name |-> FullName, type |-> "A", per_page |-> PerPage, page |-> p]

\* an exit test that is one page off
last_page_next(p, raw_results) == p + 1 = raw_results.total_pages

\* line 82: the loop's exit test
last_page(p, raw_results) == p = raw_results.total_pages

\* the value of self.cf._base.raw when get_seed_records is left by an exception
raw_on_error == TRUE

\* new_record of set_seed
new_record(seed, t) ==
    IF t # <<>>
    THEN [name |-> Name, type |-> "A", content |-> seed, ttl |-> t[1]]
    ELSE [name |-> Name, type |-> "A", content |-> seed]

\* a set_seed without its try/except
set_seed_raises_all(zone_exc, post_exc) ==
    IF zone_exc # None THEN zone_exc ELSE post_exc

\* the try/except of set_seed: the exception that leaves set_seed (None if none),
\* given what the zone_id access and the post raised
set_seed_raises(zone_exc, post_exc) ==
    LET e == IF zone_exc # None THEN zone_exc ELSE post_exc
    IN  IF e = CloudFlareAPIError THEN None ELSE e

\* a loop that deletes every record
to_delete_all(seed_record, S) == TRUE

\* a loop with the test inverted
to_delete_others(seed_record, S) == seed_record.content \notin S

\* line 119: the test of delete_seeds' loop
to_delete(seed_record, S) == seed_record.content \in S

\* delete_seeds' loop up to its next delete call: the records still to visit, from
\* the first one that passes the test
RECURSIVE skip_to_match(_, _)
skip_to_match(recs, S) ==
    IF recs = <<>> THEN <<>>
    ELSE IF to_delete(Head(recs), S) THEN recs
    ELSE skip_to_match(Tail(recs), S)

\* the provider's answer to a served record read
provider_read(recs, params) ==
    [result |-> PageOf(recs, params.per_page, params.page),
     result_info |-> [total_pages |-> TotalPages(recs, params.per_page)]]

(* ------------------------------- Init ---------------------------------- *)
Init ==
    /\ zone_id = None
    /\ raw = FALSE
    /\ \E n \in 0..MaxRecords : store = InitStore(n) /\ nextId = n + 1
    /\ op = "none"
    /\ pc = "idle"
    /\ seeds = <<>>
    /\ arg = <<>>
    /\ ttl = <<>>
    /\ zone = None
    /\ page = 0
    /\ records = <<>>
    /\ todo = <<>>
    /\ outcome = "none"
    /\ result = <<>>
    /\ log = <<>>
    /\ pages = <<>>
    /\ lastZones = <<>>
    /\ zoneErr = None
    /\ store0 = store
    /\ readStore = <<>>
    /\ stable = TRUE
    /\ others = 0
    /\ ops = 0

(* ---------------------------- invocations ------------------------------ *)
Invoke(o, first, s, t) ==
    /\ pc \in {"idle", "done"}
    /\ ops < MaxOps
    /\ ops > 0 => nextId <= MaxSmall + 1
    /\ ops' = ops + 1
    /\ op' = o
    /\ pc' = first
    /\ seeds' = s
    /\ arg' = s
    /\ ttl' = t
    /\ zone' = None
    /\ page' = 0
    /\ records' = <<>>
    /\ todo' = <<>>
    /\ outcome' = IF first = "done" THEN "returned" ELSE "running"
    /\ result' = <<>>
    /\ log' = <<>>
    /\ pages' = <<>>
    /\ lastZones' = <<>>
    /\ zoneErr' = None
    /\ store0' = store
    /\ readStore' = <<>>
    /\ stable' = TRUE
    /\ UNCHANGED <<client, provider, others>>

Call_zone_id == Invoke("zone_id", "zone", <<>>, <<>>)
Call_get_seed_records == Invoke("get_seed_records", "zone", <<>>, <<>>)
Call_get_seeds == Invoke("get_seeds", "zone", <<>>, <<>>)
Call_set_seed == \E a \in Addrs, t \in Ttls : Invoke("set_seed", "post", <<a>>, t)
\* a loop over no seed returns at once
Call_set_seeds ==
    \E s \in SeqsUpTo(Addrs, MaxSeeds), t \in Ttls :
        Invoke("set_seeds", IF s = <<>> THEN "done" ELSE "post", s, t)
Call_delete_seeds == \E S \in SUBSET Addrs : Invoke("delete_seeds", "zone", S, <<>>)

(* ------------------------------- steps --------------------------------- *)
\* what an access to self.zone_id leaves behind, whatever follows it
ZoneAccess(r, ans) ==
    /\ zone_id' = r.cache
    /\ lastZones' = IF r.looked THEN <<ans>> ELSE lastZones
    /\ zoneErr' = IF r.looked /\ r.exc # None /\ zoneErr = None THEN r.exc ELSE zoneErr

\* the zone_id property read by the caller
zone_id_get ==
    /\ pc = "zone"
    /\ op = "zone_id"
    /\ \E ans \in ZoneAnswersFor(zone_id) :
        LET r == zone_id_property(zone_id, ans)
        IN  /\ ZoneAccess(r, ans)
            /\ log' = LogZone(log, r)
            /\ outcome' = IF r.exc = None THEN "returned" ELSE r.exc
            /\ result' = IF r.exc = None THEN <<r.val>> ELSE <<>>
    /\ pc' = "done"
    /\ UNCHANGED <<raw, provider, op, seeds, ttl, locals, pages, readStore, ghosts>>

\* get_seed_records, lines 67-72: up to the loop
get_seed_records_enter ==
    /\ pc = "zone"
    /\ op \in {"get_seed_records", "get_seeds", "delete_seeds"}
    /\ \E ans \in ZoneAnswersFor(zone_id) :
        LET r == zone_id_property(zone_id, ans)
        IN  /\ ZoneAccess(r, ans)
            /\ log' = LogZone(log, r)
            /\ IF r.exc = None
               THEN /\ zone' = r.val
                    /\ raw' = TRUE
                    /\ pc' = "read"
                    /\ outcome' = outcome
               ELSE /\ zone' = zone
                    /\ raw' = raw
                    /\ pc' = "done"
                    /\ outcome' = r.exc
    /\ UNCHANGED <<provider, op, seeds, ttl, page, records, todo, result, pages,
                   readStore, ghosts>>

\* get_seed_records has returned recs to its caller: what the caller does with them
Returned(recs) ==
    /\ readStore' = store
    /\ IF op = "delete_seeds"
       THEN /\ todo' = skip_to_match(recs, seeds)
            /\ result' = result
            /\ pc' = IF todo' = <<>> THEN "done" ELSE "delete"
            /\ outcome' = IF todo' = <<>> THEN "returned" ELSE outcome
       ELSE /\ todo' = todo
            /\ result' = IF op = "get_seeds" THEN Contents(recs) ELSE recs
            /\ pc' = "done"
            /\ outcome' = "returned"

\* get_seed_records, lines 73-88: one turn of the loop
get_seed_records_page ==
    /\ pc = "read"
    /\ page <= MaxTotalPages
    /\ page' = page + 1
    /\ \E exc \in CallAnswers :
        /\ log' = Append(log, [call |-> "dns_records.get", zone |-> zone,
                               params |-> read_params(page + 1), answer |-> exc])
        /\ IF exc # None
           THEN /\ outcome' = exc
                /\ pc' = "done"
                /\ raw' = raw_on_error
                /\ UNCHANGED <<records, pages, todo, result, readStore>>
           ELSE LET raw_results == provider_read(store, read_params(page + 1))
                IN  /\ records' = records \o raw_results.result
                    /\ pages' = Append(pages, raw_results)
                    /\ IF last_page(page + 1, raw_results.result_info)
                       THEN /\ raw' = FALSE
                            /\ Returned(records')
                       ELSE UNCHANGED <<raw, pc, outcome, todo, result, readStore>>
    /\ UNCHANGED <<zone_id, provider, op, seeds, ttl, zone, lastZones, zoneErr, ghosts>>

\* set_seed, lines 97-111, for the next address of set_seed/set_seeds
set_seed ==
    /\ pc = "post"
    /\ \E ans \in ZoneAnswersFor(zone_id), post_exc \in CallAnswers :
        LET r == zone_id_property(zone_id, ans)
            posted == r.exc = None
            raised == set_seed_raises(r.exc, IF posted THEN post_exc ELSE None)
        IN  /\ ZoneAccess(r, ans)
            /\ posted /\ post_exc = None => nextId <= MaxId
            /\ log' = IF posted
                      THEN Append(LogZone(log, r),
                                  [call |-> "dns_records.post", zone |-> r.val,
                                   data |-> new_record(Head(seeds), ttl),
                                   answer |-> post_exc])
                      ELSE LogZone(log, r)
            /\ IF posted /\ post_exc = None
               THEN /\ store' = Append(store, [id |-> nextId, content |-> Head(seeds)])
                    /\ nextId' = nextId + 1
               ELSE UNCHANGED provider
            /\ IF raised # None
               THEN /\ outcome' = raised
                    /\ pc' = "done"
                    /\ seeds' = seeds
               ELSE /\ seeds' = Tail(seeds)
                    /\ pc' = IF seeds' = <<>> THEN "done" ELSE "post"
                    /\ outcome' = IF seeds' = <<>> THEN "returned" ELSE outcome
    /\ UNCHANGED <<raw, op, ttl, locals, result, pages, readStore, ghosts>>

\* delete_seeds, lines 118-121: the loop up to and including its next delete call
delete_seeds ==
    /\ pc = "delete"
    /\ \E ans \in ZoneAnswersFor(zone_id), del_exc \in CallAnswers :
        LET r == zone_id_property(zone_id, ans)
            rec == Head(todo)
            called == r.exc = None
            exc == IF called THEN del_exc ELSE r.exc
        IN  /\ ZoneAccess(r, ans)
            /\ log' = IF called
                      THEN Append(LogZone(log, r),
                                  [call |-> "dns_records.delete", zone |-> r.val,
                                   id |-> rec.id, found |-> rec.id \in Ids(store),
                                   answer |-> del_exc])
                      ELSE LogZone(log, r)
            /\ store' = IF called /\ del_exc = None THEN Remove(store, rec.id) ELSE store
            /\ IF exc # None
               THEN /\ outcome' = exc
                    /\ pc' = "done"
                    /\ todo' = todo
               ELSE /\ todo' = skip_to_match(Tail(todo), seeds)
                    /\ pc' = IF todo' = <<>> THEN "done" ELSE "delete"
                    /\ outcome' = IF todo' = <<>> THEN "returned" ELSE outcome
    /\ UNCHANGED <<raw, nextId, op, seeds, ttl, zone, page, records, result, pages,
                   readStore, ghosts>>

(* ---------------------------- other writers ---------------------------- *)
\* other writers act between the provider calls of an operation that reads the records
OtherChange ==
    /\ pc \in {"read", "delete"}
    /\ others < MaxOther
    /\ others' = others + 1
    /\ stable' = FALSE
    /\ UNCHANGED <<client, op, pc, seeds, arg, ttl, locals, outcome, result, log, pages,
                   lastZones, zoneErr, store0, readStore, ops>>

OtherAdd ==
    /\ nextId <= MaxId
    /\ \E a \in Addrs : store' = Append(store, [id |-> nextId, content |-> a])
    /\ nextId' = nextId + 1
    /\ OtherChange

\* another writer deletes the oldest or the newest record
OtherDelete ==
    /\ \E i \in {1, Len(store)} \cap (1..Len(store)) : store' = Remove(store, store[i].id)
    /\ nextId' = nextId
    /\ OtherChange

Next ==
    \/ Call_zone_id
    \/ Call_get_seed_records
    \/ Call_get_seeds
    \/ Call_set_seed
    \/ Call_set_seeds
    \/ Call_delete_seeds
    \/ zone_id_get
    \/ get_seed_records_enter
    \/ get_seed_records_page
    \/ set_seed
    \/ delete_seeds
    \/ OtherAdd
    \/ OtherDelete

Spec == Init /\ [][Next]_vars

(* ------------------------------ properties ----------------------------- *)
Calls(l, c) == SelectSeq(l, LAMBDA e : e.call = c)
Lookups(l) == Len(Calls(l, "zones.get"))
RecordCalls(l) == SelectSeq(l, LAMBDA e : e.call # "zones.get")
Range(f) == {f[i] : i \in DOMAIN f}

RECURSIVE Concat(_)
Concat(ps) == IF ps = <<>> THEN <<>> ELSE Head(ps).result \o Concat(Tail(ps))

\* C1: once a zone lookup has succeeded the cached zone id never changes, no further
\* zone lookup is issued, and every record call carries the cached zone id.
C1_ZoneIdCached ==
    [][/\ zone_id # None => zone_id' = zone_id /\ Lookups(log') <= Lookups(log)
       /\ \A i \in 1..Len(log') :
            log'[i].call # "zones.get" => log'[i].zone = zone_id' /\ zone_id' # None]_vars

\* a later operation has issued record calls on a cache hit
C1_Witness ==
    /\ ops >= 2
    /\ pc = "done"
    /\ zone_id # None
    /\ Lookups(log) = 0
    /\ RecordCalls(log) # <<>>

\* C2: a zone query answered with zero zones fails with ZoneNotFound, with two or
\* more with TooManyZones, and with exactly one returns that zone's identifier.
C2_ResolveOutcome ==
    (op = "zone_id" /\ pc = "done" /\ lastZones # <<>> /\ lastZones[1].exc = None) =>
        LET zones == lastZones[1].zones
        IN  /\ Len(zones) = 0 <=> outcome = ZoneNotFound
            /\ Len(zones) >= 2 <=> outcome = TooManyZones
            /\ Len(zones) = 1 <=> outcome = "returned"
            /\ outcome = "returned" => result = <<zones[1].id>>

\* a query answered with several zones has failed
C2_Witness ==
    /\ op = "zone_id"
    /\ pc = "done"
    /\ lastZones # <<>>
    /\ lastZones[1].exc = None
    /\ Len(lastZones[1].zones) >= 2
    /\ outcome = TooManyZones

\* C3: an operation whose zone resolution failed fails to its caller with that
\* error and issues no record read, create or delete call.
C3_ZoneErrorPropagates ==
    (pc = "done" /\ zoneErr # None) => outcome = zoneErr /\ RecordCalls(log) = <<>>

\* C4: while every page response reports the same total_pages = N >= 1, the reads
\* issued are pages 1, 2, ... in order with per_page 10, type A and the full name, at
\* most N of them; after the N-th response the loop has ended and the records are
\* the concatenation of the N pages.
C4_Pagination ==
    \A N \in 1..MaxTotalPages :
        (pages # <<>> /\ \A i \in 1..Len(pages) : pages[i].result_info.total_pages = N) =>
            LET reads == Calls(log, "dns_records.get")
            IN  /\ Len(reads) <= N
                /\ \A i \in 1..Len(reads) :
                     reads[i].params = [name |-> <<"seeds", "example", "org">>,
                                        type |-> "A", per_page |-> 10, page |-> i]
                /\ Len(pages) = N =>
                     /\ pc # "read"
                     /\ records = Concat(pages)
                     /\ op = "get_seed_records" =>
                          outcome = "returned" /\ result = Concat(pages)
                /\ Len(pages) < N => pc = "read" \/ outcome \in ProviderErrors

\* two pages have been read and returned
C4_Witness ==
    /\ op = "get_seed_records"
    /\ pc = "done"
    /\ outcome = "returned"
    /\ Len(pages) = 2
    /\ pages[1].result_info.total_pages = 2
    /\ pages[2].result_info.total_pages = 2
    /\ Len(result) > PerPage

\* C5: a delete_seeds(S) that returns with no other writer acting has issued exactly
\* one delete call for each prior record whose content is in S, with that record's
\* identifier and the resolved zone id, none for any other record, and leaves the
\* provider with exactly the prior records whose content is not in S.
C5_DeleteFrame ==
    (op = "delete_seeds" /\ pc = "done" /\ outcome = "returned" /\ stable) =>
        LET dels == Calls(log, "dns_records.delete")
            hit == {r \in Range(store0) : r.content \in arg}
        IN  /\ {dels[i].id : i \in 1..Len(dels)} = {r.id : r \in hit}
            /\ Len(dels) = Cardinality(hit)
            /\ \A i \in 1..Len(dels) : dels[i].zone = zone_id
            /\ store = SelectSeq(store0, LAMBDA r : r.content \notin arg)

\* some records have been deleted and some left
C5_Witness ==
    /\ op = "delete_seeds"
    /\ pc = "done"
    /\ outcome = "returned"
    /\ stable
    /\ Calls(log, "dns_records.delete") # <<>>
    /\ store # <<>>
    /\ Len(store) < Len(store0)

\* C6: with the zone already resolved, set_seed whose create call is answered with
\* an API error returns normally having issued that one create call; delete_seeds
\* one of whose delete calls is answered with an API error fails to its caller.
C6_ErrorAsymmetry ==
    /\ (op = "set_seed" /\ pc = "done" /\ Lookups(log) = 0
            /\ \E i \in 1..Len(log) : log[i].answer = CloudFlareAPIError) =>
         /\ outcome = "returned"
         /\ Len(Calls(log, "dns_records.post")) = 1
    /\ (op = "delete_seeds" /\ pc = "done"
            /\ \E i \in 1..Len(log) :
                 log[i].call = "dns_records.delete" /\ log[i].answer = CloudFlareAPIError) =>
         outcome = CloudFlareAPIError

\* set_seed has returned normally from a failed create on a resolved zone
C6_Witness ==
    /\ op = "set_seed"
    /\ pc = "done"
    /\ Lookups(log) = 0
    /\ Len(log) = 1
    /\ log[1].call = "dns_records.post"
    /\ log[1].answer = CloudFlareAPIError
    /\ outcome = "returned"

\* the create calls set_seeds(arg, ttl) is to issue
ExpectedPosts == [i \in 1..Len(arg) |-> new_record(arg[i], ttl)]
PostedData(l) ==
    LET posts == Calls(l, "dns_records.post") IN [i \in 1..Len(posts) |-> posts[i].data]
\* no provider call of the operation failed, except create calls with an API error
OnlyCreateApiErrors ==
    /\ lastZones # <<>> => lastZones[1].exc = None
    /\ \A i \in 1..Len(log) :
         log[i].call # "zones.get" => log[i].answer \in {None, CloudFlareAPIError}

\* C7 as stated: set_seeds issues one create call per address, in order, and
\* returns normally whichever of them are answered with an API error.
C7_AsStated ==
    (op = "set_seeds" /\ pc = "done" /\ OnlyCreateApiErrors) =>
        outcome = "returned" /\ PostedData(log) = ExpectedPosts

\* C7 amended: the same, provided the zone resolution did not fail.
C7_AddSeeds ==
    (op = "set_seeds" /\ pc = "done" /\ OnlyCreateApiErrors /\ zoneErr = None) =>
        /\ outcome = "returned"
        /\ PostedData(log) = [i \in 1..Len(arg) |->
                                IF ttl = <<>>
                                THEN [name |-> <<"seeds">>, type |-> "A", content |-> arg[i]]
                                ELSE [name |-> <<"seeds">>, type |-> "A", content |-> arg[i],
                                      ttl |-> ttl[1]]]

\* a failed create was followed by a served one, with a ttl
C7_Witness ==
    /\ op = "set_seeds"
    /\ pc = "done"
    /\ outcome = "returned"
    /\ ttl # <<>>
    /\ LET posts == Calls(log, "dns_records.post")
       IN  /\ Len(posts) = 2
           /\ posts[1].answer = CloudFlareAPIError
           /\ posts[2].answer = None

\* C8: the pagination loop ends.  The provider reports at most MaxTotalPages pages
\* and the loop ends only on a page equal to the reported total, so it ends if and
\* only if it never asks for a page beyond MaxTotalPages.
C8_LoopEnds == page <= MaxTotalPages

\* C9: every delete call of delete_seeds is for a record it read itself whose
\* content is in the removal set, and its steps leave every record it has not read
\* in place.
C9_NoAtomicity ==
    [][/\ \A i \in 1..Len(log') :
            log'[i].call = "dns_records.delete" =>
                \E r \in Range(records') : r.id = log'[i].id /\ r.content \in arg'
       /\ (pc = "delete" /\ log' # log) =>
            \A r \in Range(store) : r.id \notin Ids(records) => r \in Range(store')]_vars

\* a delete has been issued for a record another writer had already deleted
C9_Witness ==
    /\ op = "delete_seeds"
    /\ ~stable
    /\ \E i \in 1..Len(log) : log[i].call = "dns_records.delete" /\ ~log[i].found

\* C10: whenever no get_seed_records call is in progress, raw mode is off.
C10_RawOff == pc # "read" => raw = FALSE

====
